---- MODULE Spec2Model ----
(***************************************************************************)
(* Model of migration_utils.py: the v2 -> v1 order mapper                  *)
(* (map_v2_to_legacy, map_lineitems_to_items), the deprecation classifier  *)
(* (detect_deprecation) and the issue detector                             *)
(* (find_compatibility_issues); of concurrent callers of these functions;  *)
(* of the includeItems parsing of the HTTP layers and the endpoints of     *)
(* migration_hardening/mock_server.py; of the sample mappers               *)
(* (CompatibilityAdapter, map_v2_to_v1, _v2_to_v1); and of the counters of *)
(* RegressionTestSuite.                                                    *)
(*                                                                         *)
(* Python values are tagged records [t |-> type, v |-> payload], so that   *)
(* None, a missing key, an empty list and a raised exception stay          *)
(* distinguishable and "is None", "in", truthiness and ".get" can be       *)
(* modelled as Python evaluates them.                                      *)
(***************************************************************************)
EXTENDS Integers, Sequences, FiniteSets, TLC

VARIABLES response, op, args, result, shared,
          calls, legacy_state_enum, request, suite

vars == <<response, op, args, result, shared,
          calls, legacy_state_enum, request, suite>>

----------------------------------------------------------------------------
(* Python values *)

None == [t |-> "None"]

Str(s) == [t |-> "str", v |-> s]

PyInt(n) == [t |-> "int", v |-> n]

\* a float, held as the number of hundredths: PyFloat(5950) is 59.5
PyFloat(h) == [t |-> "float", v |-> h]

List(s) == [t |-> "list", v |-> s]

\* a dict: v is a function from the set of keys that are present
Dict(f) == [t |-> "dict", v |-> f]

Tuple(s) == [t |-> "tuple", v |-> s]

\* the call ended in an exception of the named type
Raise(e) == [t |-> "raise", v |-> e]

EmptyDict == Dict([k \in {} |-> None])

\* d.get(k) of a dict d: the value, or None when the key is missing
Get(d, k) == IF k \in DOMAIN d.v THEN d.v[k] ELSE None

\* d.get(k, default)
GetOr(d, k, default) == IF k \in DOMAIN d.v THEN d.v[k] ELSE default

\* k in d
HasKey(d, k) == k \in DOMAIN d.v

\* bool(x)
Truthy(x) ==
    CASE x.t = "None" -> FALSE
      [] x.t = "str" -> x.v # ""
      [] x.t \in {"int", "float"} -> x.v # 0
      [] x.t \in {"list", "tuple"} -> Len(x.v) > 0
      [] x.t = "dict" -> DOMAIN x.v # {}

\* a == b of Python: an int and a float are equal when they are the same number
PyEq(a, b) ==
    CASE a.t = "int" /\ b.t = "float" -> 100 * a.v = b.v
      [] a.t = "float" /\ b.t = "int" -> a.v = 100 * b.v
      [] OTHER -> a = b

\* hash(x) raises TypeError for list and dict
Hashable(x) == x.t \notin {"list", "dict"}

----------------------------------------------------------------------------
(* migration_utils.py *)

LEGACY_STATE_ENUM == {Str("PAID"), Str("CANCELLED"), Str("SHIPPED")}

\* faulty variant: a key is set only when its source field is present
MapLineItem_OmitMissing(li) ==
    Dict([k \in {x \in {"productName", "qty"} :
                    \/ x = "productName" /\ HasKey(li, "name")
                    \/ x = "qty" /\ HasKey(li, "quantity")} |->
            IF k = "productName" THEN Get(li, "name") ELSE Get(li, "quantity")])

\* one v1 item from one v2 line item (the dict literal of the loop body)
MapLineItem(li) ==
    Dict([k \in {"productName", "qty"} |->
            IF k = "productName" THEN Get(li, "name") ELSE Get(li, "quantity")])

\* faulty variant: li["name"] and li["quantity"], which raise KeyError on a
\* missing field
map_lineitems_to_items_Subscript(line_items) ==
    IF ~Truthy(line_items) THEN List(<<>>)
    ELSE CASE line_items.t \in {"int", "float"} -> Raise("TypeError")
           [] line_items.t \in {"str", "dict"} -> Raise("AttributeError")
           [] line_items.t = "list" ->
                IF \E i \in 1..Len(line_items.v) : line_items.v[i].t # "dict"
                THEN Raise("AttributeError")
                ELSE IF \E i \in 1..Len(line_items.v) :
                          ~HasKey(line_items.v[i], "name") \/ ~HasKey(line_items.v[i], "quantity")
                THEN Raise("KeyError")
                ELSE List([i \in 1..Len(line_items.v) |-> MapLineItem(line_items.v[i])])

\* faulty variant: each mapped item is inserted at the front of the list
map_lineitems_to_items_Reversed(line_items) ==
    IF ~Truthy(line_items) THEN List(<<>>)
    ELSE CASE line_items.t \in {"int", "float"} -> Raise("TypeError")
           [] line_items.t \in {"str", "dict"} -> Raise("AttributeError")
           [] line_items.t = "list" ->
                IF \E i \in 1..Len(line_items.v) : line_items.v[i].t # "dict"
                THEN Raise("AttributeError")
                ELSE List([i \in 1..Len(line_items.v) |->
                            MapLineItem(line_items.v[Len(line_items.v) + 1 - i])])

map_lineitems_to_items(line_items) ==
    IF ~Truthy(line_items) THEN List(<<>>)
    ELSE CASE line_items.t \in {"int", "float"} -> Raise("TypeError")
           [] line_items.t \in {"str", "dict"} -> Raise("AttributeError")
           [] line_items.t = "list" ->
                IF \E i \in 1..Len(line_items.v) : line_items.v[i].t # "dict"
                THEN Raise("AttributeError")
                ELSE List([i \in 1..Len(line_items.v) |-> MapLineItem(line_items.v[i])])

\* body = v2_response.get("body", {}) if isinstance(v2_response, dict) else {}
BodyOf(v2_response) ==
    IF v2_response.t = "dict" THEN GetOr(v2_response, "body", EmptyDict) ELSE EmptyDict

\* faulty variant: the state is copied without the enum safeguard
MapStatus_PassThrough(state, fallback_state) == state

\* faulty variant: a missing state is treated like an unknown one
MapStatus_NoneIsUnknown(state, fallback_state) ==
    IF state \in LEGACY_STATE_ENUM THEN state ELSE fallback_state

\* res["status"] from state and fallback_state
MapStatus(state, fallback_state) ==
    IF state = None THEN None
    ELSE IF state \in LEGACY_STATE_ENUM THEN state
    ELSE fallback_state

\* faulty variant: the amount is tested for truth instead of for presence
MapTotalPrice_Truthy(body) ==
    IF Truthy(Get(body, "amount")) THEN Get(body, "amount") ELSE None

\* res["totalPrice"] from body
MapTotalPrice(body) ==
    IF HasKey(body, "amount") THEN Get(body, "amount") ELSE None

\* faulty variant: a missing lineItems is copied as it is, without the [] guard
MapItems_NoGuard(body) ==
    LET line_items == Get(body, "lineItems")
    IN  IF line_items = None THEN None ELSE map_lineitems_to_items(line_items)

\* res["items"] from body (a value, or Raise)
MapItems(body) ==
    LET line_items == Get(body, "lineItems")
    IN  IF line_items = None THEN List(<<>>) ELSE map_lineitems_to_items(line_items)

\* faulty variant: body.get("orderId", "")
MapOrderId_DefaultEmpty(body) == GetOr(body, "orderId", Str(""))

\* res["orderId"] from body
MapOrderId(body) == Get(body, "orderId")

\* faulty variant: res starts as a copy of the state field of the body
LegacyRecord_LeakState(orderId, status, totalPrice, items) ==
    Dict([k \in {"orderId", "status", "totalPrice", "items", "state"} |->
            CASE k = "orderId" -> orderId
              [] k = "status" -> status
              [] k = "totalPrice" -> totalPrice
              [] k = "items" -> items
              [] k = "state" -> status])

\* the dict res after its four assignments
LegacyRecord(orderId, status, totalPrice, items) ==
    Dict([k \in {"orderId", "status", "totalPrice", "items"} |->
            CASE k = "orderId" -> orderId
              [] k = "status" -> status
              [] k = "totalPrice" -> totalPrice
              [] k = "items" -> items])

\* faulty variant: a placeholder item is synthesized when items were requested but
\* lineItems is missing
map_v2_to_legacy_Placeholder(v2_response, include_items_requested, fallback_state) ==
    LET body == BodyOf(v2_response)
        placeholder == Dict([k \in {"productName", "qty"} |->
                              IF k = "productName" THEN Str("<items omitted>") ELSE PyInt(0)])
    IN  IF body.t # "dict" THEN Raise("AttributeError")
        ELSE IF ~Hashable(Get(body, "state")) THEN Raise("TypeError")
        ELSE IF MapItems(body).t = "raise" THEN MapItems(body)
        ELSE LegacyRecord(MapOrderId(body),
                          MapStatus(Get(body, "state"), fallback_state),
                          MapTotalPrice(body),
                          IF include_items_requested /\ ~HasKey(body, "lineItems")
                          THEN List(<<placeholder>>)
                          ELSE MapItems(body))

\* faulty variant: line items are mapped only when items were requested
map_v2_to_legacy_DropUnrequested(v2_response, include_items_requested, fallback_state) ==
    LET body == BodyOf(v2_response)
    IN  IF body.t # "dict" THEN Raise("AttributeError")
        ELSE IF ~Hashable(Get(body, "state")) THEN Raise("TypeError")
        ELSE IF MapItems(body).t = "raise" THEN MapItems(body)
        ELSE LegacyRecord(MapOrderId(body),
                          MapStatus(Get(body, "state"), fallback_state),
                          MapTotalPrice(body),
                          IF include_items_requested THEN MapItems(body) ELSE List(<<>>))

map_v2_to_legacy(v2_response, include_items_requested, fallback_state) ==
    LET body == BodyOf(v2_response)
    IN  IF body.t # "dict" THEN Raise("AttributeError")
        ELSE IF ~Hashable(Get(body, "state")) THEN Raise("TypeError")
        ELSE IF MapItems(body).t = "raise" THEN MapItems(body)
        ELSE LegacyRecord(MapOrderId(body),
                          MapStatus(Get(body, "state"), fallback_state),
                          MapTotalPrice(body),
                          MapItems(body))

\* x is an object that can be changed in place, so a copied reference to it
\* is shared between the input and the result
Mutable(x) == x.t \in {"list", "dict"}

\* faulty variant: "if not line_items: return line_items" hands an empty input list
\* back to the caller
ItemsOrigin_ReturnsInput(body) ==
    LET line_items == Get(body, "lineItems")
    IN  IF line_items = None THEN "new"
        ELSE IF ~Truthy(line_items)
             THEN (IF Mutable(line_items) THEN "body.lineItems" ELSE "new")
        ELSE "new"

\* the object res["items"] refers to: in each branch a list the call builds
ItemsOrigin(body) ==
    LET line_items == Get(body, "lineItems")
    IN  IF line_items = None THEN "new"
        ELSE IF ~Truthy(line_items) THEN "new"
        ELSE "new"

\* the input objects that the result of map_v2_to_legacy refers to: res is a
\* new dict and each item a new dict, while orderId, amount, name and quantity
\* are stored as the references .get returns
map_v2_to_legacy_shared(v2_response, include_items_requested, fallback_state) ==
    LET body == BodyOf(v2_response)
        line_items == Get(body, "lineItems")
    IN  IF map_v2_to_legacy(v2_response, include_items_requested, fallback_state).t = "raise"
        THEN {}
        ELSE ({ItemsOrigin(body)} \ {"new"})
             \cup (IF Mutable(Get(body, "orderId")) THEN {"body.orderId"} ELSE {})
             \cup (IF Mutable(Get(body, "amount")) THEN {"body.amount"} ELSE {})
             \cup (IF /\ Truthy(line_items)
                      /\ \E i \in 1..Len(line_items.v) :
                            \/ Mutable(Get(line_items.v[i], "name"))
                            \/ Mutable(Get(line_items.v[i], "quantity"))
                   THEN {"body.lineItems[i].field"} ELSE {})

\* faulty variant: the body is inspected before the status code
detect_deprecation_BodyFirst(resp) ==
    LET status_code == IF resp.t = "dict" THEN Get(resp, "statusCode") ELSE None
        body == BodyOf(resp)
    IN  IF body.t = "dict" /\ Get(body, "error") = Str("API_VERSION_DEPRECATED")
        THEN Tuple(<<TRUE, "body indicates API_VERSION_DEPRECATED">>)
        ELSE IF PyEq(status_code, PyInt(410))
        THEN Tuple(<<TRUE, "HTTP 410 deprecation">>)
        ELSE Tuple(<<FALSE, "">>)

\* faulty variant: the body signal is honoured only on a 200 response
detect_deprecation_BodyOn200(resp) ==
    LET status_code == IF resp.t = "dict" THEN Get(resp, "statusCode") ELSE None
        body == BodyOf(resp)
    IN  IF PyEq(status_code, PyInt(410))
        THEN Tuple(<<TRUE, "HTTP 410 deprecation">>)
        ELSE IF /\ PyEq(status_code, PyInt(200))
                /\ body.t = "dict"
                /\ Get(body, "error") = Str("API_VERSION_DEPRECATED")
        THEN Tuple(<<TRUE, "body indicates API_VERSION_DEPRECATED">>)
        ELSE Tuple(<<FALSE, "">>)

\* faulty variant: any error in the body counts as a deprecation
detect_deprecation_AnyError(resp) ==
    LET status_code == IF resp.t = "dict" THEN Get(resp, "statusCode") ELSE None
        body == BodyOf(resp)
    IN  IF PyEq(status_code, PyInt(410))
        THEN Tuple(<<TRUE, "HTTP 410 deprecation">>)
        ELSE IF body.t = "dict" /\ Truthy(Get(body, "error"))
        THEN Tuple(<<TRUE, "body indicates API_VERSION_DEPRECATED">>)
        ELSE Tuple(<<FALSE, "">>)

\* faulty variant: body.get("error") without the isinstance(body, dict) guard
detect_deprecation_NoBodyGuard(resp) ==
    LET status_code == IF resp.t = "dict" THEN Get(resp, "statusCode") ELSE None
        body == BodyOf(resp)
    IN  IF PyEq(status_code, PyInt(410))
        THEN Tuple(<<TRUE, "HTTP 410 deprecation">>)
        ELSE IF body.t # "dict" THEN Raise("AttributeError")
        ELSE IF Get(body, "error") = Str("API_VERSION_DEPRECATED")
        THEN Tuple(<<TRUE, "body indicates API_VERSION_DEPRECATED">>)
        ELSE Tuple(<<FALSE, "">>)

detect_deprecation(resp) ==
    LET status_code == IF resp.t = "dict" THEN Get(resp, "statusCode") ELSE None
        body == BodyOf(resp)
    IN  IF PyEq(status_code, PyInt(410))
        THEN Tuple(<<TRUE, "HTTP 410 deprecation">>)
        ELSE IF body.t = "dict" /\ Get(body, "error") = Str("API_VERSION_DEPRECATED")
        THEN Tuple(<<TRUE, "body indicates API_VERSION_DEPRECATED">>)
        ELSE Tuple(<<FALSE, "">>)

\* str(x) as the f-string of the unknown-state issue formats it
Format(x) ==
    CASE x.t = "str" -> x.v
      [] x.t = "int" -> ToString(x.v)

\* faulty variant: the renamed fields are tested with body.get(key), by value instead of by key
IssuesOf_ByValue(body) ==
    LET state == Get(body, "state")
    IN  (IF Truthy(Get(body, "state")) /\ ~Truthy(Get(body, "status"))
         THEN <<Str("renamed_field: status -> state")>> ELSE <<>>)
        \o (IF Truthy(Get(body, "amount")) /\ ~Truthy(Get(body, "totalPrice"))
            THEN <<Str("renamed_field: totalPrice -> amount")>> ELSE <<>>)
        \o (IF Truthy(Get(body, "lineItems")) /\ ~Truthy(Get(body, "items"))
            THEN <<Str("renamed_field: items -> lineItems")>> ELSE <<>>)
        \o (IF ~HasKey(body, "lineItems")
            THEN <<Str("missing_items_when_no_includeItems")>> ELSE <<>>)
        \o (IF Truthy(state) /\ state \notin LEGACY_STATE_ENUM
            THEN <<Str("unknown_state_value: " \o Format(state))>> ELSE <<>>)

\* faulty variant: items count as omitted whenever body.get("lineItems") is falsy
IssuesOf_FalsyLineItems(body) ==
    LET state == Get(body, "state")
    IN  (IF HasKey(body, "state") /\ ~HasKey(body, "status")
         THEN <<Str("renamed_field: status -> state")>> ELSE <<>>)
        \o (IF HasKey(body, "amount") /\ ~HasKey(body, "totalPrice")
            THEN <<Str("renamed_field: totalPrice -> amount")>> ELSE <<>>)
        \o (IF HasKey(body, "lineItems") /\ ~HasKey(body, "items")
            THEN <<Str("renamed_field: items -> lineItems")>> ELSE <<>>)
        \o (IF ~Truthy(Get(body, "lineItems"))
            THEN <<Str("missing_items_when_no_includeItems")>> ELSE <<>>)
        \o (IF Truthy(state) /\ state \notin LEGACY_STATE_ENUM
            THEN <<Str("unknown_state_value: " \o Format(state))>> ELSE <<>>)

\* faulty variant: the renamed-items test looks at the items key only
IssuesOf_ItemsKeyOnly(body) ==
    LET state == Get(body, "state")
    IN  (IF HasKey(body, "state") /\ ~HasKey(body, "status")
         THEN <<Str("renamed_field: status -> state")>> ELSE <<>>)
        \o (IF HasKey(body, "amount") /\ ~HasKey(body, "totalPrice")
            THEN <<Str("renamed_field: totalPrice -> amount")>> ELSE <<>>)
        \o (IF ~HasKey(body, "items")
            THEN <<Str("renamed_field: items -> lineItems")>> ELSE <<>>)
        \o (IF ~HasKey(body, "lineItems")
            THEN <<Str("missing_items_when_no_includeItems")>> ELSE <<>>)
        \o (IF Truthy(state) /\ state \notin LEGACY_STATE_ENUM
            THEN <<Str("unknown_state_value: " \o Format(state))>> ELSE <<>>)

\* faulty variant: items count as omitted when body.get("lineItems") is None
IssuesOf_NoneLineItems(body) ==
    LET state == Get(body, "state")
    IN  (IF HasKey(body, "state") /\ ~HasKey(body, "status")
         THEN <<Str("renamed_field: status -> state")>> ELSE <<>>)
        \o (IF HasKey(body, "amount") /\ ~HasKey(body, "totalPrice")
            THEN <<Str("renamed_field: totalPrice -> amount")>> ELSE <<>>)
        \o (IF HasKey(body, "lineItems") /\ ~HasKey(body, "items")
            THEN <<Str("renamed_field: items -> lineItems")>> ELSE <<>>)
        \o (IF Get(body, "lineItems") = None
            THEN <<Str("missing_items_when_no_includeItems")>> ELSE <<>>)
        \o (IF Truthy(state) /\ state \notin LEGACY_STATE_ENUM
            THEN <<Str("unknown_state_value: " \o Format(state))>> ELSE <<>>)

\* the issues of a dict body, in the order the code appends them
IssuesOf(body) ==
    LET state == Get(body, "state")
    IN  (IF HasKey(body, "state") /\ ~HasKey(body, "status")
         THEN <<Str("renamed_field: status -> state")>> ELSE <<>>)
        \o (IF HasKey(body, "amount") /\ ~HasKey(body, "totalPrice")
            THEN <<Str("renamed_field: totalPrice -> amount")>> ELSE <<>>)
        \o (IF HasKey(body, "lineItems") /\ ~HasKey(body, "items")
            THEN <<Str("renamed_field: items -> lineItems")>> ELSE <<>>)
        \o (IF ~HasKey(body, "lineItems")
            THEN <<Str("missing_items_when_no_includeItems")>> ELSE <<>>)
        \o (IF Truthy(state) /\ state \notin LEGACY_STATE_ENUM
            THEN <<Str("unknown_state_value: " \o Format(state))>> ELSE <<>>)

find_compatibility_issues(v2_response) ==
    LET body == BodyOf(v2_response)
    IN  CASE body.t \in {"None", "int", "float"} -> Raise("TypeError")
          [] body.t \in {"str", "list"} -> Raise("AttributeError")
          [] body.t = "dict" ->
               IF Truthy(Get(body, "state")) /\ ~Hashable(Get(body, "state"))
               THEN Raise("TypeError")
               ELSE List(IssuesOf(body))

----------------------------------------------------------------------------
(* Inputs: the responses a caller can hand to the functions *)

\* longest lineItems sequence enumerated
MaxItems == 2

\* a key that is left out of the dict being built
Absent == [t |-> "absent"]

\* the dict holding the fields of r that are not Absent
MkDict(r) == Dict([k \in {x \in DOMAIN r : r[x] # Absent} |-> r[k]])

OrderIds == {Absent, None, Str("ORD-789")}

States == {Absent, None, Str(""), Str("PAID"), Str("CANCELLED"), Str("SHIPPED"),
           Str("FULFILLED"), Str("UNKNOWN_STATE")}

Amounts == {Absent, None, PyInt(0), PyFloat(5950)}

LineItems ==
    {MkDict([name |-> n, quantity |-> q]) :
        n \in {Absent, Str("Pen")}, q \in {Absent, PyInt(3)}}
    \cup {MkDict([name |-> Str("Notebook"), quantity |-> PyInt(2)])}

LineItemSeqs == UNION {[1..n -> LineItems] : n \in 0..MaxItems}

LineItemLists == {Absent, None} \cup {List(s) : s \in LineItemSeqs}

\* order-like bodies: any subset of orderId, state, amount, lineItems
OrderBodies ==
    {MkDict([orderId |-> o, state |-> s, amount |-> a, lineItems |-> l]) :
        o \in OrderIds, s \in States, a \in Amounts, l \in LineItemLists}

\* bodies whose state or lineItems has a type the mapper does not expect
IllTypedBodies ==
    {MkDict([state |-> Str("PAID"), lineItems |-> l]) :
        l \in {Str(""), Str("Pen"), PyInt(0), PyInt(5), EmptyDict,
               MkDict([name |-> Str("Pen")]), List(<<None>>),
               List(<<MkDict([name |-> Str("Pen")]), Str("Pen")>>)}}
    \cup {MkDict([state |-> s, amount |-> PyInt(0)]) :
        s \in {List(<<>>), List(<<Str("PAID")>>), EmptyDict, PyInt(0), PyInt(5)}}
    \cup {MkDict([orderId |-> o, amount |-> a]) :
        o \in {Str("ORD-789"), List(<<Str("ORD-789")>>)},
        a \in {PyInt(0), List(<<PyInt(0)>>)}}

\* bodies that also carry the legacy keys status, totalPrice and items
LegacyKeyBodies ==
    {MkDict([state |-> s, status |-> st, amount |-> a, totalPrice |-> tp,
             lineItems |-> l, items |-> it]) :
        s \in {Absent, None, Str("PAID"), Str("FULFILLED")},
        st \in {Absent, None, Str("PAID")},
        a \in {Absent, None, PyInt(0)},
        tp \in {Absent, None, PyInt(0)},
        l \in {Absent, None, List(<<>>),
               List(<<MkDict([name |-> Str("Pen"), quantity |-> PyInt(3)])>>)},
        it \in {Absent, None, List(<<>>)}}

\* bodies of error responses
ErrorBodies ==
    {Absent, EmptyDict, None, Str("gone"), List(<<>>),
     MkDict([orderId |-> Str("ORD-789"), state |-> Str("FULFILLED")])}
    \cup {MkDict([error |-> e, message |-> m]) :
            e \in {Absent, None, Str("API_VERSION_DEPRECATED"), Str("Not Found")},
            m \in {Absent, Str("Please migrate to /api/v2/orders")}}

StatusCodes ==
    {Absent, None, PyInt(200), PyInt(404), PyInt(410), PyInt(500),
     PyFloat(41000), Str("410")}

OrderResponses ==
    {MkDict([statusCode |-> PyInt(200), body |-> b]) : b \in OrderBodies \cup IllTypedBodies \cup LegacyKeyBodies}

ErrorResponses ==
    {MkDict([statusCode |-> c, body |-> b]) : c \in StatusCodes, b \in ErrorBodies}

\* responses that are not a dict at all
NonDictResponses == {None, Str("gone"), List(<<>>)}

Responses == OrderResponses \cup ErrorResponses \cup NonDictResponses

\* the values a caller passes for fallback_state; "UNKNOWN" is the default
DefaultFallbackState == Str("UNKNOWN")

FallbackStates == {DefaultFallbackState, Str("DELIVERED")}

----------------------------------------------------------------------------
(* The calling harness: one response, any sequence of calls on it *)

NoResult == [t |-> "pending"]

\* the values of the variables a specification does not use
NoCalls == <<>>

NoRequest == [t |-> "none"]

NoSuite == [t |-> "none"]

\* the variables of the concurrent callers, of the HTTP layers and of the
\* test suite
other_vars == <<calls, legacy_state_enum, request, suite>>

NoArgs == [include_items_requested |-> FALSE, fallback_state |-> DefaultFallbackState]

Init ==
    /\ response \in Responses
    /\ op = "none"
    /\ args = NoArgs
    /\ result = NoResult
    /\ shared = {}
    /\ calls = NoCalls
    /\ legacy_state_enum = LEGACY_STATE_ENUM
    /\ request = NoRequest
    /\ suite = NoSuite

MapV2ToLegacy ==
    \E include_items_requested \in BOOLEAN, fallback_state \in FallbackStates :
        /\ op' = "map_v2_to_legacy"
        /\ args' = [include_items_requested |-> include_items_requested,
                    fallback_state |-> fallback_state]
        /\ result' = map_v2_to_legacy(response, include_items_requested, fallback_state)
        /\ shared' = map_v2_to_legacy_shared(response, include_items_requested, fallback_state)
        /\ UNCHANGED response
        /\ UNCHANGED other_vars

DetectDeprecation ==
    /\ op' = "detect_deprecation"
    /\ args' = NoArgs
    /\ result' = detect_deprecation(response)
    /\ shared' = {}
    /\ UNCHANGED response
    /\ UNCHANGED other_vars

FindCompatibilityIssues ==
    /\ op' = "find_compatibility_issues"
    /\ args' = NoArgs
    /\ result' = find_compatibility_issues(response)
    /\ shared' = {}
    /\ UNCHANGED response
    /\ UNCHANGED other_vars

Next == MapV2ToLegacy \/ DetectDeprecation \/ FindCompatibilityIssues

Spec == Init /\ [][Next]_vars

----------------------------------------------------------------------------
(* Properties of map_v2_to_legacy *)

\* the last call was map_v2_to_legacy
Mapped == op = "map_v2_to_legacy"

\* the body the functions read is well typed for the mapper: a dict whose
\* state is a string or None/missing and whose lineItems is a list of dicts
\* or None/missing
OrderLike(r) ==
    LET b == BodyOf(r)
    IN  /\ b.t = "dict"
        /\ Get(b, "state").t \in {"None", "str"}
        /\ \/ Get(b, "lineItems") = None
           \/ /\ Get(b, "lineItems").t = "list"
              /\ \A i \in 1..Len(Get(b, "lineItems").v) : Get(b, "lineItems").v[i].t = "dict"

\* the result of the last call is a dict with the key k
ResultHas(k) == result.t = "dict" /\ k \in DOMAIN result.v

\* C1: for every order-like response and both values of
\* include_items_requested, the result of map_v2_to_legacy has the key
\* "items" and its value is a list (never None, never missing).
C1_ItemsAlwaysSequence ==
    (Mapped /\ OrderLike(response)) =>
        /\ ResultHas("items")
        /\ result.v["items"].t = "list"

\* C1 witness: items were requested, lineItems is missing, items is [].
C1_Witness ==
    /\ Mapped /\ OrderLike(response)
    /\ args.include_items_requested
    /\ ~HasKey(BodyOf(response), "lineItems")
    /\ ResultHas("items") /\ result.v["items"] = List(<<>>)

\* the five values the claim allows for status
StatusDomain == LEGACY_STATE_ENUM \cup {Str("UNKNOWN"), None}

\* C2 as stated: for all inputs, status is one of PAID, CANCELLED, SHIPPED,
\* UNKNOWN or None.  Fails when the caller passes another fallback_state.
C2_Original ==
    (Mapped /\ OrderLike(response)) =>
        /\ ResultHas("status")
        /\ result.v["status"] \in StatusDomain

\* C2 amended: status is one of PAID, CANCELLED, SHIPPED, fallback_state or
\* None; with fallback_state at its default "UNKNOWN" it is one of PAID,
\* CANCELLED, SHIPPED, UNKNOWN or None.
C2_StatusDomain ==
    (Mapped /\ OrderLike(response)) =>
        /\ ResultHas("status")
        /\ result.v["status"] \in LEGACY_STATE_ENUM \cup {args.fallback_state, None}
        /\ args.fallback_state = DefaultFallbackState => result.v["status"] \in StatusDomain

\* C2 witness: FULFILLED under the default fallback_state became UNKNOWN.
C2_Witness ==
    /\ Mapped /\ OrderLike(response)
    /\ Get(BodyOf(response), "state") = Str("FULFILLED")
    /\ args.fallback_state = DefaultFallbackState
    /\ ResultHas("status") /\ result.v["status"] = Str("UNKNOWN")

\* C3 as stated: state missing or None gives None, a legacy state gives
\* itself, any other state gives "UNKNOWN".  Fails when the caller passes
\* another fallback_state.
C3_Original ==
    (Mapped /\ OrderLike(response)) =>
        LET state == Get(BodyOf(response), "state")
        IN  /\ ResultHas("status")
            /\ state = None => result.v["status"] = None
            /\ state \in LEGACY_STATE_ENUM => result.v["status"] = state
            /\ state \notin LEGACY_STATE_ENUM \cup {None} => result.v["status"] = Str("UNKNOWN")

\* C3 amended: state missing or None gives None, a legacy state gives
\* itself, any other state gives fallback_state, which is "UNKNOWN" by
\* default.
C3_StatusRule ==
    (Mapped /\ OrderLike(response)) =>
        LET state == Get(BodyOf(response), "state")
        IN  /\ ResultHas("status")
            /\ state = None => result.v["status"] = None
            /\ state \in LEGACY_STATE_ENUM => result.v["status"] = state
            /\ state \notin LEGACY_STATE_ENUM \cup {None} =>
                 /\ result.v["status"] = args.fallback_state
                 /\ args.fallback_state = DefaultFallbackState =>
                      result.v["status"] = Str("UNKNOWN")

\* C3 witness: {state: "UNKNOWN_STATE", amount: 0} under the default
\* fallback_state gave status "UNKNOWN".
C3_Witness ==
    /\ Mapped
    /\ BodyOf(response) = MkDict([state |-> Str("UNKNOWN_STATE"), amount |-> PyInt(0)])
    /\ args.fallback_state = DefaultFallbackState
    /\ ResultHas("status") /\ result.v["status"] = Str("UNKNOWN")

\* lineItems of the response is a list of dicts
HasLineItemList(r) ==
    /\ OrderLike(r)
    /\ Get(BodyOf(r), "lineItems").t = "list"

\* C4: when lineItems is a list of length N, items has length N and
\* items[i] = {productName: lineItems[i].name, qty: lineItems[i].quantity}
\* for every i: same order, duplicates kept.
C4_ItemsOneToOne ==
    (Mapped /\ HasLineItemList(response)) =>
        LET lineItems == Get(BodyOf(response), "lineItems").v
        IN  /\ ResultHas("items")
            /\ result.v["items"].t = "list"
            /\ Len(result.v["items"].v) = Len(lineItems)
            /\ \A i \in 1..Len(lineItems) :
                 /\ result.v["items"].v[i].t = "dict"
                 /\ Get(result.v["items"].v[i], "productName") = Get(lineItems[i], "name")
                 /\ Get(result.v["items"].v[i], "qty") = Get(lineItems[i], "quantity")

\* C4 witness: Pen x3 then Notebook x2 mapped to two items in that order.
C4_Witness ==
    /\ Mapped /\ HasLineItemList(response)
    /\ Get(BodyOf(response), "lineItems").v =
         <<MkDict([name |-> Str("Pen"), quantity |-> PyInt(3)]),
           MkDict([name |-> Str("Notebook"), quantity |-> PyInt(2)])>>
    /\ ResultHas("items")
    /\ Len(result.v["items"].v) = 2
    /\ Get(result.v["items"].v[1], "productName") = Str("Pen")
    /\ Get(result.v["items"].v[2], "productName") = Str("Notebook")

\* C5: when the lineItems key is missing, items is [] for both values of
\* include_items_requested.
C5_AbsentLineItemsEmpty ==
    (Mapped /\ OrderLike(response) /\ ~HasKey(BodyOf(response), "lineItems")) =>
        /\ ResultHas("items")
        /\ result.v["items"] = List(<<>>)

\* C5 witness: {orderId, state: "PAID", amount} without lineItems, items
\* requested, gave items = [].
C5_Witness ==
    /\ Mapped /\ OrderLike(response)
    /\ DOMAIN BodyOf(response).v = {"orderId", "state", "amount"}
    /\ Get(BodyOf(response), "state") = Str("PAID")
    /\ args.include_items_requested
    /\ ResultHas("items") /\ result.v["items"] = List(<<>>)

\* C6: totalPrice is the value of amount whenever the key is present (0 and
\* None included) and None when the key is missing.
C6_TotalPriceVerbatim ==
    (Mapped /\ OrderLike(response)) =>
        LET body == BodyOf(response)
        IN  /\ ResultHas("totalPrice")
            /\ HasKey(body, "amount") => result.v["totalPrice"] = body.v["amount"]
            /\ ~HasKey(body, "amount") => result.v["totalPrice"] = None

\* C6 witness: amount 0 gave totalPrice 0.
C6_Witness ==
    /\ Mapped /\ OrderLike(response)
    /\ HasKey(BodyOf(response), "amount")
    /\ BodyOf(response).v["amount"] = PyInt(0)
    /\ ResultHas("totalPrice") /\ result.v["totalPrice"] = PyInt(0)

\* C7: orderId of the result is the orderId of the body, None included,
\* and None when the key is missing.
C7_OrderIdVerbatim ==
    (Mapped /\ OrderLike(response)) =>
        LET body == BodyOf(response)
        IN  /\ ResultHas("orderId")
            /\ HasKey(body, "orderId") => result.v["orderId"] = body.v["orderId"]
            /\ ~HasKey(body, "orderId") => result.v["orderId"] = None

\* C7 witness: an order without the orderId key gave orderId None.
C7_Witness ==
    /\ Mapped /\ OrderLike(response)
    /\ HasKey(BodyOf(response), "state")
    /\ ~HasKey(BodyOf(response), "orderId")
    /\ ResultHas("orderId") /\ result.v["orderId"] = None

----------------------------------------------------------------------------
(* Properties of detect_deprecation *)

\* the last call was detect_deprecation
Detected == op = "detect_deprecation"

\* the statusCode of the response is the number 410
StatusIs410(r) ==
    /\ r.t = "dict"
    /\ HasKey(r, "statusCode")
    /\ r.v["statusCode"] \in {PyInt(410), PyFloat(41000)}

\* the body of the response is a dict whose error is API_VERSION_DEPRECATED
BodySaysDeprecated(r) ==
    /\ r.t = "dict"
    /\ HasKey(r, "body")
    /\ r.v["body"].t = "dict"
    /\ HasKey(r.v["body"], "error")
    /\ r.v["body"].v["error"] = Str("API_VERSION_DEPRECATED")

\* C8: a response whose statusCode is 410 gives (True, "HTTP 410
\* deprecation") whatever its body is; the 410 reason wins over the body's.
C8_Http410 ==
    (Detected /\ StatusIs410(response)) =>
        result = Tuple(<<TRUE, "HTTP 410 deprecation">>)

\* C8 witness: 410 with a body carrying API_VERSION_DEPRECATED gave the 410
\* reason.
C8_Witness ==
    /\ Detected
    /\ StatusIs410(response) /\ BodySaysDeprecated(response)
    /\ result = Tuple(<<TRUE, "HTTP 410 deprecation">>)

\* C9: a response whose statusCode is not 410 and whose body.error is
\* API_VERSION_DEPRECATED gives (True, "body indicates
\* API_VERSION_DEPRECATED"), whatever the status code.
C9_BodyDeprecated ==
    (Detected /\ ~StatusIs410(response) /\ BodySaysDeprecated(response)) =>
        result = Tuple(<<TRUE, "body indicates API_VERSION_DEPRECATED">>)

\* C9 witness: a 500 response with the deprecation error in its body.
C9_Witness ==
    /\ Detected
    /\ response.t = "dict"
    /\ Get(response, "statusCode") = PyInt(500)
    /\ BodySaysDeprecated(response)
    /\ result = Tuple(<<TRUE, "body indicates API_VERSION_DEPRECATED">>)

\* C10: the result is deprecated exactly when statusCode is 410 or
\* body.error is API_VERSION_DEPRECATED; otherwise it is (False, ""), and the
\* reason is empty exactly when the result is not deprecated.
C10_DeprecatedIff ==
    Detected =>
        /\ result.t = "tuple" /\ Len(result.v) = 2
        /\ result.v[1] <=> (StatusIs410(response) \/ BodySaysDeprecated(response))
        /\ ~(StatusIs410(response) \/ BodySaysDeprecated(response)) =>
             result = Tuple(<<FALSE, "">>)
        /\ (result.v[2] = "") <=> ~result.v[1]

\* C10 witness: a 500 response with an empty body gave (False, "").
C10_Witness ==
    /\ Detected
    /\ response.t = "dict"
    /\ Get(response, "statusCode") = PyInt(500)
    /\ Get(response, "body") = EmptyDict
    /\ result = Tuple(<<FALSE, "">>)

----------------------------------------------------------------------------
(* Robustness of detect_deprecation *)

\* the response is not a dict, or has no body, or a body that is not a dict,
\* or a body without an error field
Malformed(r) ==
    \/ r.t # "dict"
    \/ ~HasKey(r, "body")
    \/ r.v["body"].t # "dict"
    \/ ~HasKey(r.v["body"], "error")

\* C11: detect_deprecation never raises: it always returns a tuple, and for a
\* malformed response whose statusCode is not 410 the tuple is (False, "").
C11_MalformedNotDeprecated ==
    Detected =>
        /\ result.t = "tuple"
        /\ (Malformed(response) /\ ~StatusIs410(response)) => result = Tuple(<<FALSE, "">>)

\* C11 witness: a 500 response whose body is a string gave (False, "").
C11_Witness ==
    /\ Detected
    /\ response.t = "dict"
    /\ Get(response, "statusCode") = PyInt(500)
    /\ Get(response, "body") = Str("gone")
    /\ result = Tuple(<<FALSE, "">>)

----------------------------------------------------------------------------
(* Properties of find_compatibility_issues *)

\* the last call was find_compatibility_issues
Found == op = "find_compatibility_issues"

\* the elements of a sequence
Range(seq) == {seq[i] : i \in 1..Len(seq)}

\* the issue is in the returned list
Reported(issue) == result.t = "list" /\ Str(issue) \in Range(result.v)

\* C12: each renamed-field issue is reported exactly when the new key is in
\* the body and the legacy key is not, whatever the values are.
C12_RenamedIffKeys ==
    (Found /\ OrderLike(response)) =>
        LET body == BodyOf(response)
        IN  /\ result.t = "list"
            /\ Reported("renamed_field: status -> state")
                 <=> (HasKey(body, "state") /\ ~HasKey(body, "status"))
            /\ Reported("renamed_field: totalPrice -> amount")
                 <=> (HasKey(body, "amount") /\ ~HasKey(body, "totalPrice"))
            /\ Reported("renamed_field: items -> lineItems")
                 <=> (HasKey(body, "lineItems") /\ ~HasKey(body, "items"))

\* C12 witness: state is present with the value None and status is missing:
\* the renamed-status issue is reported; amount is missing and totalPrice is
\* present: the renamed-amount issue is not.
C12_Witness ==
    /\ Found /\ OrderLike(response)
    /\ HasKey(BodyOf(response), "state")
    /\ BodyOf(response).v["state"] = None
    /\ ~HasKey(BodyOf(response), "status")
    /\ ~HasKey(BodyOf(response), "amount")
    /\ HasKey(BodyOf(response), "totalPrice")
    /\ Reported("renamed_field: status -> state")
    /\ ~Reported("renamed_field: totalPrice -> amount")

\* the unknown-state issue carrying the raw state value
UnknownStateIssue(state) ==
    "unknown_state_value: " \o (IF state = None THEN "None" ELSE state.v)

\* C13 as stated: the unknown-state issue is reported exactly when state is
\* present and its value is not PAID, CANCELLED or SHIPPED, the empty string
\* and an explicit None included.  The code tests "state and ...", so an
\* empty or None state is not reported.
C13_UnknownStateIffPresent ==
    (Found /\ OrderLike(response)) =>
        LET body == BodyOf(response)
        IN  Reported(UnknownStateIssue(Get(body, "state")))
              <=> (HasKey(body, "state") /\ body.v["state"] \notin LEGACY_STATE_ENUM)

\* C14: the items-omitted issue is reported exactly when the lineItems key is
\* missing; removing any other v2 field (orderId, state, amount) from the
\* body adds no issue.
C14_ItemsOmittedIffAbsent ==
    (Found /\ OrderLike(response)) =>
        LET body == BodyOf(response)
        IN  /\ Reported("missing_items_when_no_includeItems") <=> ~HasKey(body, "lineItems")
            /\ \A k \in DOMAIN body.v \cap {"orderId", "state", "amount"} :
                 LET less == Dict([x \in DOMAIN body.v \ {k} |-> body.v[x]])
                     other == find_compatibility_issues(Dict([x \in {"body"} |-> less]))
                 IN  other.t = "list" /\ Range(other.v) \subseteq Range(result.v)

\* C14 witness: lineItems is present and empty, and the issue is not reported.
C14_Witness ==
    /\ Found /\ OrderLike(response)
    /\ HasKey(BodyOf(response), "state")
    /\ HasKey(BodyOf(response), "lineItems")
    /\ BodyOf(response).v["lineItems"] = List(<<>>)
    /\ ~Reported("missing_items_when_no_includeItems")

\* the body has state = a new enum value and amount, and none of status,
\* totalPrice, items, lineItems
Ord555Shape(r) ==
    LET body == BodyOf(r)
    IN  /\ OrderLike(r)
        /\ HasKey(body, "state") /\ HasKey(body, "amount")
        /\ DOMAIN body.v \cap {"status", "totalPrice", "items", "lineItems"} = {}
        /\ body.v["state"].t = "str"
        /\ body.v["state"].v # ""
        /\ body.v["state"] \notin LEGACY_STATE_ENUM

----------------------------------------------------------------------------
(* Shape and totality of the results *)

\* the ORD-789 order and the legacy record the mapper must give for it
Ord789 ==
    MkDict([orderId |-> Str("ORD-789"), state |-> Str("SHIPPED"), amount |-> PyFloat(5950),
            lineItems |-> List(<<MkDict([name |-> Str("Pen"), quantity |-> PyInt(3)]),
                                 MkDict([name |-> Str("Notebook"), quantity |-> PyInt(2)])>>)])

Ord789Legacy ==
    MkDict([orderId |-> Str("ORD-789"), status |-> Str("SHIPPED"), totalPrice |-> PyFloat(5950),
            items |-> List(<<MkDict([productName |-> Str("Pen"), qty |-> PyInt(3)]),
                             MkDict([productName |-> Str("Notebook"), qty |-> PyInt(2)])>>)])

\* C16: the result has exactly the keys orderId, status, totalPrice and
\* items, every item has exactly the keys productName and qty, and the
\* ORD-789 order maps to the legacy record of the scenario.
C16_LegacyShape ==
    (Mapped /\ OrderLike(response)) =>
        /\ result.t = "dict"
        /\ DOMAIN result.v = {"orderId", "status", "totalPrice", "items"}
        /\ result.v["items"].t = "list"
        /\ \A i \in 1..Len(result.v["items"].v) :
             /\ result.v["items"].v[i].t = "dict"
             /\ DOMAIN result.v["items"].v[i].v = {"productName", "qty"}
        /\ BodyOf(response) = Ord789 => result = Ord789Legacy

\* C16 witness: ORD-789 with items requested gave the legacy record.
C16_Witness ==
    /\ Mapped
    /\ BodyOf(response) = Ord789
    /\ args.include_items_requested
    /\ result = Ord789Legacy

\* C17: a mapped item always has both keys; the one whose source field is
\* missing is None and the other is copied.
C17_MissingFieldIsNone ==
    (Mapped /\ HasLineItemList(response)) =>
        LET lineItems == Get(BodyOf(response), "lineItems").v
        IN  /\ ResultHas("items")
            /\ result.v["items"].t = "list"
            /\ Len(result.v["items"].v) = Len(lineItems)
            /\ \A i \in 1..Len(lineItems) :
                 LET li == lineItems[i]
                     item == result.v["items"].v[i]
                 IN  /\ item.t = "dict"
                     /\ {"productName", "qty"} \subseteq DOMAIN item.v
                     /\ item.v["productName"] = (IF HasKey(li, "name") THEN li.v["name"] ELSE None)
                     /\ item.v["qty"] = (IF HasKey(li, "quantity") THEN li.v["quantity"] ELSE None)

\* C17 witness: the line item {name: "Pen"} became {productName: "Pen",
\* qty: None}.
C17_Witness ==
    /\ Mapped /\ HasLineItemList(response)
    /\ Get(BodyOf(response), "lineItems").v = <<MkDict([name |-> Str("Pen")])>>
    /\ ResultHas("items")
    /\ result.v["items"].v = <<MkDict([productName |-> Str("Pen"), qty |-> None])>>

\* C18: on an order-like body (any subset of the fields, line items with any
\* subset of theirs) map_v2_to_legacy returns a dict and
\* find_compatibility_issues returns a list; neither raises.
C18_TotalOnOrderLike ==
    OrderLike(response) =>
        /\ Mapped => result.t = "dict"
        /\ Found => result.t = "list"

\* C18 witness: an order with no field but a line item without name or
\* quantity was mapped.
C18_Witness ==
    /\ Mapped /\ HasLineItemList(response)
    /\ DOMAIN BodyOf(response).v = {"lineItems"}
    /\ Get(BodyOf(response), "lineItems").v = <<EmptyDict>>
    /\ result.t = "dict"

----------------------------------------------------------------------------
(* Frame: the argument and the result *)

\* orderId, amount and the name and quantity of every line item are not
\* lists or dicts
ScalarFields(r) ==
    LET body == BodyOf(r)
        line_items == Get(body, "lineItems")
    IN  /\ ~Mutable(Get(body, "orderId"))
        /\ ~Mutable(Get(body, "amount"))
        /\ line_items.t = "list" =>
             \A i \in 1..Len(line_items.v) :
                 /\ ~Mutable(Get(line_items.v[i], "name"))
                 /\ ~Mutable(Get(line_items.v[i], "quantity"))

\* C19: a call of any of the three functions leaves the response as it was;
\* the result never refers to the response, its body or its lineItems list,
\* and for an order-like response with scalar fields it refers to no object
\* of the input at all.
C19_ArgumentUntouched ==
    [][/\ response' = response
       /\ shared' \cap {"response", "body", "body.lineItems"} = {}
       /\ (OrderLike(response) /\ ScalarFields(response)) => shared' = {}]_vars

\* C19 witness: a present, empty lineItems list was mapped to an empty items
\* list that is not the input list.
C19_Witness ==
    /\ Mapped /\ HasLineItemList(response) /\ ScalarFields(response)
    /\ Get(BodyOf(response), "lineItems") = List(<<>>)
    /\ ResultHas("items") /\ result.v["items"] = List(<<>>)
    /\ shared = {}

----------------------------------------------------------------------------
(* Determinism *)

\* C20 as stated: a call of the same function on the same response returns
\* what the call before it returned, whatever the other arguments.  Fails
\* for map_v2_to_legacy when the two calls differ in fallback_state.
C20_Original ==
    [][(op' = op /\ op # "none") => result' = result]_vars

\* C20 amended: a call of the same function on the same response, with the
\* same fallback_state, returns what the call before it returned, whatever
\* include_items_requested is in either call and whatever was called before.
C20_SameResponseSameResult ==
    [][(op' = op /\ op # "none" /\ args'.fallback_state = args.fallback_state)
          => result' = result]_vars

\* C20 witness: an order with line items has been mapped with items not
\* requested, after which any further call repeats the result.
C20_Witness ==
    /\ Mapped /\ HasLineItemList(response)
    /\ ~args.include_items_requested
    /\ Len(Get(BodyOf(response), "lineItems").v) > 0
    /\ ResultHas("items")
    /\ Len(result.v["items"].v) > 0

----------------------------------------------------------------------------
(* Absent and empty lineItems *)

\* lineItems of the body is absent, null or the empty list
NoLineItems(body) ==
    \/ ~HasKey(body, "lineItems")
    \/ body.v["lineItems"] = None
    \/ body.v["lineItems"] = List(<<>>)

\* C28: for every v2 record the issue detector reports at most one of the
\* renamed-items and the items-omitted issue: an absent lineItems gives the
\* items-omitted issue and never the renamed-items issue, a present lineItems
\* (also [] or null) never gives the items-omitted issue; the mapper returns
\* items = [] for an absent, a null and an empty lineItems alike, for every
\* include_items_requested and fallback_state.
C28_AbsentVersusEmpty ==
    OrderLike(response) =>
        LET body == BodyOf(response)
        IN  /\ Found =>
                /\ result.t = "list"
                /\ ~(Reported("renamed_field: items -> lineItems")
                      /\ Reported("missing_items_when_no_includeItems"))
                /\ ~HasKey(body, "lineItems") =>
                      /\ Reported("missing_items_when_no_includeItems")
                      /\ ~Reported("renamed_field: items -> lineItems")
                /\ HasKey(body, "lineItems") =>
                      ~Reported("missing_items_when_no_includeItems")
                /\ NoLineItems(body) =>
                      \A include_items_requested \in BOOLEAN, fallback_state \in FallbackStates :
                          LET res == map_v2_to_legacy(response, include_items_requested,
                                                      fallback_state)
                          IN  res.t = "dict" /\ res.v["items"] = List(<<>>)
            /\ (Mapped /\ NoLineItems(body)) =>
                  ResultHas("items") /\ result.v["items"] = List(<<>>)

\* C28 witness: the detector has run on a body whose lineItems is present and
\* null: it reports the renamed-items issue and not the items-omitted issue,
\* while the mapper gives [] for it as it does without the key.
C28_Witness ==
    /\ Found /\ OrderLike(response)
    /\ HasKey(BodyOf(response), "lineItems")
    /\ BodyOf(response).v["lineItems"] = None
    /\ ~HasKey(BodyOf(response), "items")
    /\ Reported("renamed_field: items -> lineItems")
    /\ ~Reported("missing_items_when_no_includeItems")
    /\ map_v2_to_legacy(response, FALSE, DefaultFallbackState).v["items"] = List(<<>>)

----------------------------------------------------------------------------
(* Concurrent callers of the three functions of migration_utils.py.  The   *)
(* callers share the module global LEGACY_STATE_ENUM and, in the worst     *)
(* case, pass the same response object; every step of a call reads the     *)
(* shared objects as they are when the step runs.                          *)

\* the number of concurrent callers
NumCallers == 2

Callers == 1..NumCallers

\* the responses the concurrent callers share
ConcResponses ==
    {MkDict([statusCode |-> c, body |-> b]) :
        c \in {PyInt(200), PyInt(410)},
        b \in {MkDict([orderId |-> Str("ORD-789"), state |-> Str("SHIPPED"),
                       amount |-> PyFloat(5950),
                       lineItems |-> List(<<MkDict([name |-> Str("Pen"),
                                                   quantity |-> PyInt(3)])>>)]),
               MkDict([orderId |-> Str("ORD-789"), state |-> Str("FULFILLED"),
                       amount |-> PyInt(0)]),
               MkDict([error |-> Str("API_VERSION_DEPRECATED")]),
               MkDict([state |-> List(<<>>)]),
               None}}
    \cup {None}

\* the arguments the callers pass to map_v2_to_legacy
ConcArgs ==
    {NoArgs, [include_items_requested |-> TRUE, fallback_state |-> Str("DELIVERED")]}

\* the first statement of each function
FirstStep(fn) ==
    CASE fn = "map_v2_to_legacy" -> "orderId"
      [] fn = "detect_deprecation" -> "status_code"
      [] fn = "find_compatibility_issues" -> "renamed"

\* the local variables of a call before its first statement
NoLocals ==
    [orderId |-> None, status |-> None, totalPrice |-> None,
     status_code |-> None, issues |-> <<>>]

\* a caller that has not called yet
IdleCall ==
    [fn |-> "none", args |-> NoArgs, pc |-> "idle", arg |-> None,
     locals |-> NoLocals, ret |-> NoResult]

\* faulty variant: the mapper remembers each state it has seen in the module's set
WriteEnum_Caches(enum, state) ==
    IF state # None /\ Hashable(state) THEN enum \cup {state} ELSE enum

\* LEGACY_STATE_ENUM after a statement that has read state: no statement of
\* the three functions adds to, removes from or rebinds the set
WriteEnum(enum, state) == enum

\* faulty variant: the mapper consumes the state it has mapped (body.pop("state"))
WriteArgument_PopState(v2_response) ==
    IF v2_response.t = "dict" /\ BodyOf(v2_response).t = "dict"
       /\ HasKey(v2_response, "body")
    THEN Dict([k \in DOMAIN v2_response.v |->
                 IF k = "body"
                 THEN Dict([j \in DOMAIN v2_response.v["body"].v \ {"state"} |->
                              v2_response.v["body"].v[j]])
                 ELSE v2_response.v[k]])
    ELSE v2_response

\* the argument object after a statement of a call: the functions use only
\* isinstance, .get, in and iteration on it and assign only to their locals
WriteArgument(v2_response) == v2_response

\* res["status"] as lines 44-52 compute it from the module's set as it is
\* when the statement runs
MapStatusStep(state, fallback_state, enum) ==
    IF state = None THEN None
    ELSE IF state \in enum THEN state
    ELSE fallback_state

\* the issues lines 89-100 append, from the keys of the body
KeyIssues(body) ==
    (IF HasKey(body, "state") /\ ~HasKey(body, "status")
     THEN <<Str("renamed_field: status -> state")>> ELSE <<>>)
    \o (IF HasKey(body, "amount") /\ ~HasKey(body, "totalPrice")
        THEN <<Str("renamed_field: totalPrice -> amount")>> ELSE <<>>)
    \o (IF HasKey(body, "lineItems") /\ ~HasKey(body, "items")
        THEN <<Str("renamed_field: items -> lineItems")>> ELSE <<>>)
    \o (IF ~HasKey(body, "lineItems")
        THEN <<Str("missing_items_when_no_includeItems")>> ELSE <<>>)

\* the issue lines 103-105 append, from the module's set as it is when the
\* statement runs
StateIssues(body, enum) ==
    LET state == Get(body, "state")
    IN  IF Truthy(state) /\ state \notin enum
        THEN <<Str("unknown_state_value: " \o Format(state))>> ELSE <<>>

\* caller c goes on to statement pc with the locals l
Goto(c, pc, l) ==
    calls' = [calls EXCEPT ![c].pc = pc, ![c].locals = l]

\* the call of caller c ends with the value v (returned or raised)
Return(c, v) ==
    calls' = [calls EXCEPT ![c].pc = "done", ![c].ret = v]

ConcInit ==
    /\ response \in ConcResponses
    /\ legacy_state_enum = LEGACY_STATE_ENUM
    /\ calls = [c \in Callers |-> IdleCall]
    /\ op = "none"
    /\ args = NoArgs
    /\ result = NoResult
    /\ shared = {}
    /\ request = NoRequest
    /\ suite = NoSuite

\* the variables the concurrent callers leave alone
conc_unused == <<op, args, result, shared, request, suite>>

\* a caller calls one of the functions on the shared response
Call(c) ==
    /\ calls[c].pc = "idle"
    /\ \E fn \in {"map_v2_to_legacy", "detect_deprecation", "find_compatibility_issues"},
          a \in ConcArgs :
          /\ fn # "map_v2_to_legacy" => a = NoArgs
          /\ calls' = [calls EXCEPT ![c] =
                          [fn |-> fn, args |-> a, pc |-> FirstStep(fn),
                           arg |-> response, locals |-> NoLocals, ret |-> NoResult]]
    /\ UNCHANGED <<response, legacy_state_enum>>
    /\ UNCHANGED conc_unused

\* map_v2_to_legacy, lines 38-41: res = {}, body, res["orderId"]
MapOrderIdStep(c) ==
    /\ calls[c].pc = "orderId"
    /\ LET body == BodyOf(response)
       IN  IF body.t # "dict" THEN Return(c, Raise("AttributeError"))
           ELSE Goto(c, "status", [calls[c].locals EXCEPT !.orderId = MapOrderId(body)])
    /\ response' = WriteArgument(response)
    /\ UNCHANGED legacy_state_enum
    /\ UNCHANGED conc_unused

\* map_v2_to_legacy, lines 44-52: res["status"]
MapStatusStepOf(c) ==
    /\ calls[c].pc = "status"
    /\ LET state == Get(BodyOf(response), "state")
       IN  /\ IF ~Hashable(state) THEN Return(c, Raise("TypeError"))
              ELSE Goto(c, "totalPrice",
                        [calls[c].locals EXCEPT !.status =
                            MapStatusStep(state, calls[c].args.fallback_state,
                                          legacy_state_enum)])
           /\ legacy_state_enum' = WriteEnum(legacy_state_enum, state)
    /\ response' = WriteArgument(response)
    /\ UNCHANGED conc_unused

\* map_v2_to_legacy, lines 55-58: res["totalPrice"]
MapTotalPriceStep(c) ==
    /\ calls[c].pc = "totalPrice"
    /\ Goto(c, "items", [calls[c].locals EXCEPT !.totalPrice = MapTotalPrice(BodyOf(response))])
    /\ UNCHANGED <<response, legacy_state_enum>>
    /\ UNCHANGED conc_unused

\* map_v2_to_legacy, lines 61-69: res["items"] and return res
MapItemsStep(c) ==
    /\ calls[c].pc = "items"
    /\ LET items == MapItems(BodyOf(response))
           l == calls[c].locals
       IN  IF items.t = "raise" THEN Return(c, items)
           ELSE Return(c, LegacyRecord(l.orderId, l.status, l.totalPrice, items))
    /\ UNCHANGED <<response, legacy_state_enum>>
    /\ UNCHANGED conc_unused

\* detect_deprecation, line 74: status_code
DetectStatusCodeStep(c) ==
    /\ calls[c].pc = "status_code"
    /\ Goto(c, "classify",
            [calls[c].locals EXCEPT !.status_code =
                IF response.t = "dict" THEN Get(response, "statusCode") ELSE None])
    /\ UNCHANGED <<response, legacy_state_enum>>
    /\ UNCHANGED conc_unused

\* detect_deprecation, lines 75-80: the tests on the local status_code and on
\* the body as it is now
DetectClassifyStep(c) ==
    /\ calls[c].pc = "classify"
    /\ Return(c, detect_deprecation(
                    MkDict([statusCode |-> calls[c].locals.status_code,
                            body |-> BodyOf(response)])))
    /\ UNCHANGED <<response, legacy_state_enum>>
    /\ UNCHANGED conc_unused

\* find_compatibility_issues, lines 85-100: issues = [], body, the key tests
FindRenamedStep(c) ==
    /\ calls[c].pc = "renamed"
    /\ LET body == BodyOf(response)
       IN  IF body.t \in {"None", "int", "float"} THEN Return(c, Raise("TypeError"))
           ELSE Goto(c, "state",
                     [calls[c].locals EXCEPT !.issues =
                         IF body.t = "dict" THEN KeyIssues(body) ELSE <<>>])
    /\ UNCHANGED <<response, legacy_state_enum>>
    /\ UNCHANGED conc_unused

\* find_compatibility_issues, lines 103-107: the enum test and return issues
FindStateStep(c) ==
    /\ calls[c].pc = "state"
    /\ LET body == BodyOf(response)
       IN  IF body.t # "dict" THEN Return(c, Raise("AttributeError"))
           ELSE IF Truthy(Get(body, "state")) /\ ~Hashable(Get(body, "state"))
           THEN Return(c, Raise("TypeError"))
           ELSE Return(c, List(calls[c].locals.issues \o StateIssues(body, legacy_state_enum)))
    /\ UNCHANGED <<response, legacy_state_enum>>
    /\ UNCHANGED conc_unused

ConcNext ==
    \E c \in Callers :
        \/ Call(c)
        \/ MapOrderIdStep(c)
        \/ MapStatusStepOf(c)
        \/ MapTotalPriceStep(c)
        \/ MapItemsStep(c)
        \/ DetectStatusCodeStep(c)
        \/ DetectClassifyStep(c)
        \/ FindRenamedStep(c)
        \/ FindStateStep(c)

ConcSpec == ConcInit /\ [][ConcNext]_vars

\* what the call of caller c returns when it runs alone on its argument
Alone(c) ==
    CASE calls[c].fn = "map_v2_to_legacy" ->
            map_v2_to_legacy(calls[c].arg, calls[c].args.include_items_requested,
                             calls[c].args.fallback_state)
      [] calls[c].fn = "detect_deprecation" -> detect_deprecation(calls[c].arg)
      [] calls[c].fn = "find_compatibility_issues" -> find_compatibility_issues(calls[c].arg)

\* C21: under every interleaving of the statements of concurrent calls of
\* map_v2_to_legacy, detect_deprecation and find_compatibility_issues, each
\* finished call has returned what it returns when run alone, and the shared
\* objects (the module's LEGACY_STATE_ENUM and the argument) are as they were.
C21_ConcurrentCallsAsAlone ==
    /\ legacy_state_enum = LEGACY_STATE_ENUM
    /\ \A c \in Callers :
          /\ calls[c].pc # "idle" => calls[c].arg = response
          /\ calls[c].pc = "done" => calls[c].ret = Alone(c)

\* C21 witness: a mapper call and an issue-detector call of two callers on
\* the same response with an unknown state have both finished, and both have
\* read the module's set: the one returned the fallback, the other the issue.
C21_Witness ==
    /\ calls[1].pc = "done" /\ calls[2].pc = "done"
    /\ calls[1].fn = "map_v2_to_legacy" /\ calls[2].fn = "find_compatibility_issues"
    /\ BodyOf(response).t = "dict"
    /\ Get(BodyOf(response), "state") = Str("FULFILLED")
    /\ calls[1].ret.t = "dict" /\ calls[1].ret.v["status"] = calls[1].args.fallback_state
    /\ calls[2].ret.t = "list"
    /\ Str("unknown_state_value: FULFILLED") \in Range(calls[2].ret.v)

----------------------------------------------------------------------------
(* The HTTP layers: Handler.do_GET of server.py, OrdersHandler.do_GET of    *)
(* server_and_tests.py and the two endpoints of                            *)
(* migration_hardening/mock_server.py.  A query-string value is a sequence *)
(* of characters, so that str.lower() is computed character by character.  *)

\* str.lower() of one character, for the letters the inputs use
LowerChar(c) ==
    CASE c = "T" -> "t"
      [] c = "R" -> "r"
      [] c = "U" -> "u"
      [] c = "E" -> "e"
      [] c = "Y" -> "y"
      [] c = "S" -> "s"
      [] c = "F" -> "f"
      [] c = "A" -> "a"
      [] c = "L" -> "l"
      [] c = "N" -> "n"
      [] c = "O" -> "o"
      [] OTHER -> c

\* str.lower()
Lower(w) == [i \in 1..Len(w) |-> LowerChar(w[i])]

\* the words ['true', '1', 'yes']
TruthyWords == {<<"t", "r", "u", "e">>, <<"1">>, <<"y", "e", "s">>}

\* server.py, Handler.do_GET: includeItems from includeItemsRaw
\* (None when the parameter is absent)
Handler_includeItems(includeItemsRaw) ==
    /\ includeItemsRaw # None
    /\ Len(includeItemsRaw.v) > 0
    /\ Lower(includeItemsRaw.v) \in TruthyWords

\* server_and_tests.py, OrdersHandler.do_GET: includeItems from includeItems_raw
OrdersHandler_includeItems(includeItems_raw) ==
    /\ includeItems_raw # None
    /\ Lower(includeItems_raw.v) \in TruthyWords

\* mock_server.py, api_v2_orders:
\* request.args.get('includeItems', 'false').lower() == 'true'
api_v2_orders_includeItems(raw) ==
    Lower(IF raw = None THEN <<"f", "a", "l", "s", "e">> ELSE raw.v) = <<"t", "r", "u", "e">>

\* an HTTP response: status code and JSON body, with the value the handler
\* resolved includeItems to
HttpResponse(status, body, includeItems) ==
    [statusCode |-> status, body |-> body, includeItems |-> includeItems]

\* "ORD-" + userId
OrderIdOf(userId) == Str("ORD-" \o userId)

\* server.py, Handler.do_GET
Handler_do_GET(path, userIdParam, includeItemsRaw) ==
    LET userId == IF userIdParam = None THEN "000" ELSE userIdParam.v
        includeItems == Handler_includeItems(includeItemsRaw)
    IN  CASE path = "/api/v1/orders" ->
               HttpResponse(200,
                   MkDict([orderId |-> OrderIdOf(userId), status |-> Str("PAID"),
                           totalPrice |-> PyFloat(19999),
                           items |-> List(<<MkDict([productName |-> Str("Pen"),
                                                    qty |-> PyInt(3)])>>)]),
                   includeItems)
          [] path = "/api/v1/orders/deprecated" ->
               HttpResponse(410,
                   MkDict([error |-> Str("API_VERSION_DEPRECATED"),
                           message |-> Str("Please migrate to /api/v2/orders")]),
                   includeItems)
          [] path = "/api/v2/orders" ->
               HttpResponse(200,
                   CASE userId = "123" ->
                          MkDict([orderId |-> OrderIdOf(userId), state |-> Str("PAID"),
                                  amount |-> PyFloat(19999)])
                     [] userId = "456" ->
                          MkDict([orderId |-> OrderIdOf(userId), state |-> Str("CANCELLED"),
                                  amount |-> PyFloat(0), lineItems |-> List(<<>>)])
                     [] userId = "789" ->
                          MkDict([orderId |-> OrderIdOf(userId), state |-> Str("SHIPPED"),
                                  amount |-> PyFloat(5950),
                                  lineItems |-> List(<<
                                      MkDict([name |-> Str("Pen"), quantity |-> PyInt(3)]),
                                      MkDict([name |-> Str("Notebook"), quantity |-> PyInt(2)])>>)])
                     [] userId = "555" ->
                          MkDict([orderId |-> OrderIdOf(userId), state |-> Str("FULFILLED"),
                                  amount |-> PyFloat(12000)])
                     [] OTHER ->
                          MkDict([orderId |-> OrderIdOf(userId), state |-> Str("PAID"),
                                  amount |-> PyFloat(10000),
                                  lineItems |->
                                      IF includeItems
                                      THEN List(<<MkDict([name |-> Str("Generic"),
                                                          quantity |-> PyInt(1)])>>)
                                      ELSE Absent]),
                   includeItems)
          [] OTHER ->
               HttpResponse(404, MkDict([error |-> Str("NOT_FOUND")]), includeItems)

\* server_and_tests.py, OrdersHandler.do_GET (the 404 answer has no body)
OrdersHandler_do_GET(path, includeItems_raw) ==
    LET includeItems == OrdersHandler_includeItems(includeItems_raw)
    IN  CASE path = "/api/v1/orders" ->
               HttpResponse(410,
                   MkDict([error |-> Str("API_VERSION_DEPRECATED"),
                           message |-> Str("API v1 is deprecated. Use /api/v2/orders"),
                           deprecated |-> [t |-> "bool", v |-> TRUE],
                           recommended |-> Str("/api/v2/orders?includeItems=true")]),
                   FALSE)
          [] path = "/api/v2/orders" ->
               HttpResponse(200,
                   MkDict([orders |-> List(<<
                       MkDict([id |-> Str("order-123"),
                               createdAt |-> Str("2025-12-11T10:00:00Z"),
                               state |-> Str("FULFILLED"), amount |-> PyFloat(19999),
                               lineItems |->
                                   IF includeItems
                                   THEN List(<<MkDict([name |-> Str("Widget A"), quantity |-> PyInt(2)]),
                                               MkDict([name |-> Str("Widget B"), quantity |-> PyInt(1)])>>)
                                   ELSE Absent]),
                       MkDict([id |-> Str("order-124"),
                               createdAt |-> Str("2025-12-10T09:30:00Z"),
                               state |-> Str("SHIPPED"), amount |-> PyFloat(4950),
                               lineItems |->
                                   IF includeItems
                                   THEN List(<<MkDict([name |-> Str("Gadget"), quantity |-> PyInt(3)])>>)
                                   ELSE Absent])>>)]),
                   includeItems)
          [] OTHER -> HttpResponse(404, None, FALSE)

\* mock_server.py: the fixture orders by userId
ORDERS ==
    [userId \in {"123", "456", "789", "555"} |->
        CASE userId = "123" ->
               MkDict([orderId |-> Str("ORD-123"), state |-> Str("PAID"),
                       amount |-> PyFloat(19999),
                       lineItems |-> List(<<MkDict([name |-> Str("Widget"),
                                                   quantity |-> PyInt(2)])>>)])
          [] userId = "456" ->
               MkDict([orderId |-> Str("ORD-456"), state |-> Str("CANCELLED"),
                       amount |-> PyFloat(0), lineItems |-> List(<<>>)])
          [] userId = "789" ->
               MkDict([orderId |-> Str("ORD-789"), state |-> Str("SHIPPED"),
                       amount |-> PyFloat(5950),
                       lineItems |-> List(<<
                           MkDict([name |-> Str("Pen"), quantity |-> PyInt(3)]),
                           MkDict([name |-> Str("Notebook"), quantity |-> PyInt(2)])>>)])
          [] userId = "555" ->
               MkDict([orderId |-> Str("ORD-555"), state |-> Str("FULFILLED"),
                       amount |-> PyFloat(12000)])]

\* ORDERS.get(userId, None)
OrderOf(userIdParam) ==
    IF userIdParam # None /\ userIdParam.v \in DOMAIN ORDERS
    THEN ORDERS[userIdParam.v] ELSE None

\* [{"productName": li['name'], "qty": li['quantity']} for li in order['lineItems']]
MockItems(order) ==
    List([i \in 1..Len(order.v["lineItems"].v) |->
            MkDict([productName |-> order.v["lineItems"].v[i].v["name"],
                    qty |-> order.v["lineItems"].v[i].v["quantity"]])])

\* mock_server.py, api_v1_orders
api_v1_orders(userIdParam) ==
    LET order == OrderOf(userIdParam)
    IN  IF userIdParam = Str("999")
        THEN HttpResponse(410,
                 MkDict([error |-> Str("API_VERSION_DEPRECATED"),
                         message |-> Str("Please migrate to /api/v2/orders")]), FALSE)
        ELSE IF order = None THEN HttpResponse(200, EmptyDict, FALSE)
        ELSE HttpResponse(200,
                 MkDict([orderId |-> order.v["orderId"],
                         status |-> order.v["state"],
                         totalPrice |-> order.v["amount"],
                         items |-> IF HasKey(order, "lineItems") /\ Truthy(order.v["lineItems"])
                                   THEN MockItems(order) ELSE List(<<>>)]),
                 FALSE)

\* faulty variant: items is mapped whenever the order has lineItems
V2Items_IgnoreFlag(order, includeItems) ==
    IF HasKey(order, "lineItems") /\ Truthy(order.v["lineItems"])
    THEN MockItems(order) ELSE List(<<>>)

\* mock_server.py, api_v2_orders, lines 111-116: body['items']
V2Items(order, includeItems) ==
    IF HasKey(order, "lineItems") /\ includeItems /\ Truthy(order.v["lineItems"])
    THEN MockItems(order) ELSE List(<<>>)

\* faulty variant: the raw state is surfaced for every order
V2StateLegacy_Always(order) == order.v["state"]

\* mock_server.py, api_v2_orders, lines 100-107: body['stateLegacy']
V2StateLegacy(order) ==
    IF Get(order, "state") \in LEGACY_STATE_ENUM THEN Absent ELSE order.v["state"]

\* mock_server.py, api_v2_orders, lines 100-107: body['status'] and
\* body['statusNormalized']
V2Status(order) ==
    IF Get(order, "state") \in LEGACY_STATE_ENUM THEN order.v["state"] ELSE Str("UNKNOWN")

\* mock_server.py, api_v2_orders
api_v2_orders(userIdParam, raw) ==
    LET includeItems == api_v2_orders_includeItems(raw)
        order == OrderOf(userIdParam)
    IN  IF order = None THEN HttpResponse(200, EmptyDict, includeItems)
        ELSE HttpResponse(200,
                 MkDict([orderId |-> order.v["orderId"],
                         state |-> order.v["state"],
                         amount |-> order.v["amount"],
                         lineItems |-> IF includeItems /\ HasKey(order, "lineItems")
                                       THEN order.v["lineItems"] ELSE Absent,
                         status |-> V2Status(order),
                         statusNormalized |-> V2Status(order),
                         stateLegacy |-> V2StateLegacy(order),
                         totalPrice |-> order.v["amount"],
                         items |-> V2Items(order, includeItems)]),
                 includeItems)

\* the values of the userId parameter (None: not given)
UserIdParams ==
    {None, Str("123"), Str("456"), Str("789"), Str("555"), Str("999"), Str("000")}

\* the values of the includeItems parameter, as sequences of characters
\* (None: not given)
IncludeItemsParams ==
    {None}
    \cup {[t |-> "str", v |-> <<a, b, c, d>>] :
            a \in {"t", "T"}, b \in {"r", "R"}, c \in {"u", "U"}, d \in {"e", "E"}}
    \cup {[t |-> "str", v |-> <<a, b, c>>] :
            a \in {"y", "Y"}, b \in {"e", "E"}, c \in {"s", "S"}}
    \cup {[t |-> "str", v |-> w] :
            w \in {<<>>, <<"1">>, <<"0">>, <<"o", "n">>, <<"n", "o">>, <<"t">>, <<"y">>,
                   <<"f", "a", "l", "s", "e">>, <<"F", "A", "L", "S", "E">>,
                   <<"1", "1">>, <<"t", "r", "u", "e", " ">>}}

Paths == {"/api/v1/orders", "/api/v1/orders/deprecated", "/api/v2/orders", "/"}

\* a GET request
Request(layer, path, userId, includeItems) ==
    [layer |-> layer, path |-> path, userId |-> userId, includeItems |-> includeItems]

\* the requests the layers receive
Requests ==
    {Request("server.py", path, userId, raw) :
        path \in Paths, userId \in UserIdParams, raw \in IncludeItemsParams}
    \cup {Request("server_and_tests.py", path, None, raw) :
        path \in Paths, raw \in IncludeItemsParams}
    \cup {Request("mock_server.py", "/api/v1/orders", userId, None) :
        userId \in UserIdParams}
    \cup {Request("mock_server.py", "/api/v2/orders", userId, raw) :
        userId \in UserIdParams, raw \in IncludeItemsParams}

\* a request has arrived and is not answered yet
HttpInit ==
    /\ request \in Requests
    /\ result = NoResult
    /\ op = "none"
    /\ response = None
    /\ args = NoArgs
    /\ shared = {}
    /\ calls = NoCalls
    /\ legacy_state_enum = LEGACY_STATE_ENUM
    /\ suite = NoSuite

\* the variables the HTTP layers leave alone
http_unused == <<request, response, args, shared, calls, legacy_state_enum, suite>>

\* server.py answers a GET
HandlerDoGet ==
    /\ op = "none" /\ request.layer = "server.py"
    /\ op' = "Handler.do_GET"
    /\ result' = Handler_do_GET(request.path, request.userId, request.includeItems)
    /\ UNCHANGED http_unused

\* server_and_tests.py answers a GET
OrdersHandlerDoGet ==
    /\ op = "none" /\ request.layer = "server_and_tests.py"
    /\ op' = "OrdersHandler.do_GET"
    /\ result' = OrdersHandler_do_GET(request.path, request.includeItems)
    /\ UNCHANGED http_unused

\* mock_server.py answers GET /api/v1/orders
ApiV1Orders ==
    /\ op = "none" /\ request.layer = "mock_server.py"
    /\ request.path = "/api/v1/orders"
    /\ op' = "api_v1_orders"
    /\ result' = api_v1_orders(request.userId)
    /\ UNCHANGED http_unused

\* mock_server.py answers GET /api/v2/orders
ApiV2Orders ==
    /\ op = "none" /\ request.layer = "mock_server.py"
    /\ request.path = "/api/v2/orders"
    /\ op' = "api_v2_orders"
    /\ result' = api_v2_orders(request.userId, request.includeItems)
    /\ UNCHANGED http_unused

HttpNext == HandlerDoGet \/ OrdersHandlerDoGet \/ ApiV1Orders \/ ApiV2Orders

HttpSpec == HttpInit /\ [][HttpNext]_vars

----------------------------------------------------------------------------
(* Properties of the HTTP layers *)

\* one of the layers has answered a request for /api/v2/orders
AskedV2 == op # "none" /\ request.path = "/api/v2/orders"

\* the rule of the query contract: "true", "1" and "yes" in any case
ContractIncludeItems(raw) == raw # None /\ Lower(raw.v) \in TruthyWords

\* C22 as stated: each of the three layers resolves includeItems to true for
\* "true", "1" and "yes" in any case and to false for every other value and
\* for an absent parameter.  Fails for mock_server.py, which accepts "true" only.
C22_SameResolution ==
    AskedV2 => result.includeItems = ContractIncludeItems(request.includeItems)

\* the mock server answered /api/v2/orders for a fixture order
V2Known == op = "api_v2_orders" /\ OrderOf(request.userId) # None

\* the literal parameter value w was sent
Sent(w) == request.includeItems # None /\ request.includeItems.v = w

\* C23: every /api/v2/orders answer of the mock server for a fixture order
\* has an items array; includeItems=true resolves to true, includeItems=false
\* and no parameter to false; items is the 1:1 productName/qty mapping of
\* lineItems when the flag is true and the order has non-empty lineItems,
\* and [] otherwise.
C23_ItemsAlwaysArray ==
    V2Known =>
        LET order == OrderOf(request.userId)
            body == result.body
            mapped == /\ result.includeItems
                      /\ HasKey(order, "lineItems")
                      /\ Len(order.v["lineItems"].v) > 0
        IN  /\ result.statusCode = 200
            /\ Sent(<<"t", "r", "u", "e">>) => result.includeItems
            /\ (Sent(<<"f", "a", "l", "s", "e">>) \/ request.includeItems = None)
                  => ~result.includeItems
            /\ HasKey(body, "items") /\ body.v["items"].t = "list"
            /\ mapped =>
                  /\ Len(body.v["items"].v) = Len(order.v["lineItems"].v)
                  /\ \A i \in 1..Len(body.v["items"].v) :
                        body.v["items"].v[i] =
                            MkDict([productName |-> order.v["lineItems"].v[i].v["name"],
                                    qty |-> order.v["lineItems"].v[i].v["quantity"]])
            /\ ~mapped => body.v["items"] = List(<<>>)

\* C23 witness: order 789 was asked with includeItems=true and its two line
\* items were mapped.
C23_Witness ==
    /\ V2Known /\ request.userId = Str("789") /\ Sent(<<"t", "r", "u", "e">>)
    /\ result.body.v["items"] =
          List(<<MkDict([productName |-> Str("Pen"), qty |-> PyInt(3)]),
                 MkDict([productName |-> Str("Notebook"), qty |-> PyInt(2)])>>)

\* C24: in every /api/v2/orders answer of the mock server for a fixture
\* order, state is the raw state, status is state for PAID, CANCELLED and
\* SHIPPED and "UNKNOWN" otherwise, statusNormalized equals status, and
\* stateLegacy is present, with the raw state, exactly for a non-legacy state.
C24_StatusAliases ==
    V2Known =>
        LET order == OrderOf(request.userId)
            body == result.body
            legacy == order.v["state"] \in {Str("PAID"), Str("CANCELLED"), Str("SHIPPED")}
        IN  /\ body.v["state"] = order.v["state"]
            /\ body.v["status"] = (IF legacy THEN order.v["state"] ELSE Str("UNKNOWN"))
            /\ body.v["statusNormalized"] = body.v["status"]
            /\ HasKey(body, "stateLegacy") <=> ~legacy
            /\ ~legacy => body.v["stateLegacy"] = order.v["state"]

\* C24 witness: order 555 (FULFILLED) was answered with status UNKNOWN and
\* stateLegacy FULFILLED.
C24_Witness ==
    /\ V2Known /\ request.userId = Str("555")
    /\ result.body.v["state"] = Str("FULFILLED")
    /\ result.body.v["status"] = Str("UNKNOWN")
    /\ result.body.v["stateLegacy"] = Str("FULFILLED")

\* C25 as stated: the v1 record the mock server builds from a fixture order
\* has a status in {PAID, CANCELLED, SHIPPED} or the fallback sentinel
\* "UNKNOWN".  Fails for order 555, whose raw state FULFILLED is copied.
C25_V1StatusInLegacyDomain ==
    (op = "api_v1_orders" /\ OrderOf(request.userId) # None) =>
        result.body.v["status"] \in LEGACY_STATE_ENUM \cup {Str("UNKNOWN")}

----------------------------------------------------------------------------
(* The sample mappers: CompatibilityAdapter of regression_tests.py,         *)
(* map_v2_to_v1 of server_and_tests.py and _v2_to_v1 of                     *)
(* tests/test_compatibility_layer.py, each applied to a bare v2 order.      *)

\* [{"productName": li.get("name"), "qty": li.get("quantity")} for li in lineItems]
ItemsOf(lineItems) ==
    List([i \in 1..Len(lineItems.v) |-> MapLineItem(lineItems.v[i])])

\* regression_tests.py, CompatibilityAdapter.parse_state_enum
parse_state_enum(state_value) ==
    IF state_value \notin {Str("PAID"), Str("CANCELLED"), Str("SHIPPED")}
    THEN Str("SHIPPED")
    ELSE state_value

\* regression_tests.py, transform_v2_to_v1:
\* state_mapping.get(v2_response.get("state", "PAID"), "PAID")
AdapterStatus(v2_response) ==
    LET state == GetOr(v2_response, "state", Str("PAID"))
    IN  CASE state \in {Str("PAID"), Str("CANCELLED"), Str("SHIPPED")} -> state
          [] state = Str("FULFILLED") -> Str("SHIPPED")
          [] OTHER -> Str("PAID")

\* regression_tests.py, CompatibilityAdapter.transform_v2_to_v1
transform_v2_to_v1(v2_response) ==
    MkDict([orderId |-> Get(v2_response, "orderId"),
            status |-> AdapterStatus(v2_response),
            totalPrice |-> GetOr(v2_response, "amount", PyInt(0)),
            items |-> IF HasKey(v2_response, "lineItems")
                         /\ Truthy(v2_response.v["lineItems"])
                      THEN ItemsOf(v2_response.v["lineItems"])
                      ELSE List(<<>>),
            createdAt |-> Get(v2_response, "createdAt")])

\* server_and_tests.py, STATE_MAPPING with the 'UNKNOWN' fallback of map_v2_to_v1
MappedState(state) ==
    CASE state = Str("FULFILLED") -> Str("DELIVERED")
      [] state = Str("SHIPPED") -> Str("SHIPPED")
      [] OTHER -> Str("UNKNOWN")

\* the item map_v2_to_v1 synthesizes
Placeholder == MkDict([productName |-> Str("<items omitted>"), qty |-> PyInt(0)])

\* faulty variant: the placeholder is synthesized whenever there is no item to map
V1Items_PlaceholderWhenEmpty(order_v2, synthesize_item_placeholder) ==
    LET lineItems == Get(order_v2, "lineItems")
    IN  IF ~Truthy(lineItems)
        THEN (IF synthesize_item_placeholder THEN List(<<Placeholder>>) ELSE List(<<>>))
        ELSE ItemsOf(lineItems)

\* server_and_tests.py, map_v2_to_v1, lines 151-158: mapped['items']
V1Items(order_v2, synthesize_item_placeholder) ==
    LET lineItems == Get(order_v2, "lineItems")
    IN  IF lineItems = None
        THEN (IF synthesize_item_placeholder THEN List(<<Placeholder>>) ELSE List(<<>>))
        ELSE ItemsOf(lineItems)

\* server_and_tests.py, map_v2_to_v1
map_v2_to_v1(order_v2, synthesize_item_placeholder) ==
    MkDict([id |-> Get(order_v2, "id"),
            createdAt |-> Get(order_v2, "createdAt"),
            status |-> MappedState(Get(order_v2, "state")),
            totalPrice |-> Get(order_v2, "amount"),
            items |-> V1Items(order_v2, synthesize_item_placeholder)])

\* faulty variant: the default is applied to a missing state only
\* (order.get('state', 'UNKNOWN')), so a null state passes the enum test as None
GatewayStatus_DefaultOnlyWhenAbsent(order) ==
    LET status == GetOr(order, "state", Str("UNKNOWN"))
    IN  IF status \notin {Str("PAID"), Str("CANCELLED"), Str("SHIPPED"), None}
        THEN Str("UNKNOWN") ELSE status

\* tests/test_compatibility_layer.py, _v2_to_v1: order_v1['status']
GatewayStatus(order) ==
    LET status == IF Truthy(Get(order, "state")) THEN Get(order, "state")
                  ELSE Str("UNKNOWN")
    IN  IF status \notin {Str("PAID"), Str("CANCELLED"), Str("SHIPPED")}
        THEN Str("UNKNOWN") ELSE status

\* tests/test_compatibility_layer.py, _v2_to_v1
_v2_to_v1(order) ==
    MkDict([orderId |-> Get(order, "orderId"),
            status |-> GatewayStatus(order),
            totalPrice |-> Get(order, "amount"),
            items |-> IF HasKey(order, "lineItems") /\ order.v["lineItems"] # None
                      THEN ItemsOf(order.v["lineItems"])
                      ELSE List(<<>>)])

\* the lineItems values of the sample orders
SampleLineItemLists ==
    {Absent, None, List(<<>>),
     List(<<MkDict([name |-> Str("Pen"), quantity |-> PyInt(3)])>>),
     List(<<MkDict([name |-> Str("Pen"), quantity |-> PyInt(3)]),
            MkDict([name |-> Str("Notebook"), quantity |-> PyInt(2)])>>),
     List(<<MkDict([name |-> Str("Pen")]), EmptyDict>>)}

\* the v2 orders handed to the sample mappers
SampleOrders ==
    {MkDict([orderId |-> o, state |-> s, amount |-> a, lineItems |-> l]) :
        o \in OrderIds, s \in States \cup {Str("DELIVERED")}, a \in Amounts,
        l \in SampleLineItemLists}
    \cup {MkDict([id |-> Str("order-123"), createdAt |-> Str("2025-12-11T10:00:00Z"),
                  state |-> s, amount |-> PyFloat(19999), lineItems |-> l]) :
        s \in {Str("FULFILLED"), Str("SHIPPED")}, l \in SampleLineItemLists}

\* the envelope {"body": order}
Envelope(order) == Dict([k \in {"body"} |-> order])

SampleInit ==
    /\ response \in SampleOrders
    /\ op = "none"
    /\ args = NoArgs
    /\ result = NoResult
    /\ shared = {}
    /\ calls = NoCalls
    /\ legacy_state_enum = LEGACY_STATE_ENUM
    /\ request = NoRequest
    /\ suite = NoSuite

\* the variables the sample mappers leave alone
sample_unused == <<response, shared, calls, legacy_state_enum, request, suite>>

TransformV2ToV1 ==
    /\ op' = "transform_v2_to_v1"
    /\ args' = NoArgs
    /\ result' = transform_v2_to_v1(response)
    /\ UNCHANGED sample_unused

\* parse_state_enum is called with the state of the order
ParseStateEnum ==
    /\ op' = "parse_state_enum"
    /\ args' = NoArgs
    /\ result' = parse_state_enum(Get(response, "state"))
    /\ UNCHANGED sample_unused

MapV2ToV1 ==
    \E synthesize_item_placeholder \in BOOLEAN :
        /\ op' = "map_v2_to_v1"
        /\ args' = [synthesize_item_placeholder |-> synthesize_item_placeholder]
        /\ result' = map_v2_to_v1(response, synthesize_item_placeholder)
        /\ UNCHANGED sample_unused

V2ToV1 ==
    /\ op' = "_v2_to_v1"
    /\ args' = NoArgs
    /\ result' = _v2_to_v1(response)
    /\ UNCHANGED sample_unused

\* map_v2_to_legacy({"body": order}), with its default arguments
MapV2ToLegacyOfBody ==
    /\ op' = "map_v2_to_legacy"
    /\ args' = NoArgs
    /\ result' = map_v2_to_legacy(Envelope(response), NoArgs.include_items_requested,
                                  NoArgs.fallback_state)
    /\ UNCHANGED sample_unused

SampleNext ==
    TransformV2ToV1 \/ ParseStateEnum \/ MapV2ToV1 \/ V2ToV1 \/ MapV2ToLegacyOfBody

SampleSpec == SampleInit /\ [][SampleNext]_vars

----------------------------------------------------------------------------
(* Properties of the sample mappers *)

\* C26 as stated: the adapter maps PAID, CANCELLED and SHIPPED to themselves
\* and every other present state to SHIPPED, in parse_state_enum and in
\* transform_v2_to_v1 alike, so that the status of the transformed order
\* equals parse_state_enum of its state and lies in {PAID, CANCELLED, SHIPPED}.
\* Fails for UNKNOWN_STATE, which transform_v2_to_v1 maps to PAID.
C26_AdapterFallbackConsistent ==
    HasKey(response, "state") =>
        LET state == response.v["state"]
            expected == IF state \in LEGACY_STATE_ENUM THEN state ELSE Str("SHIPPED")
        IN  /\ op = "parse_state_enum" => result = expected
            /\ op = "transform_v2_to_v1" =>
                  /\ result.v["status"] = parse_state_enum(state)
                  /\ result.v["status"] \in LEGACY_STATE_ENUM

\* C27: map_v2_to_v1 gives exactly the one placeholder item when lineItems is
\* missing (the key is absent or its value is None) and the flag is set, and
\* [] when the flag is not set; when lineItems is a list the flag has no
\* effect and items is the 1:1 mapping, so an empty list stays empty.
C27_PlaceholderOnlyWhenMissing ==
    op = "map_v2_to_v1" =>
        LET lineItems == Get(response, "lineItems")
            items == result.v["items"]
        IN  /\ (lineItems = None /\ args.synthesize_item_placeholder) =>
                  items = List(<<MkDict([productName |-> Str("<items omitted>"),
                                         qty |-> PyInt(0)])>>)
            /\ (lineItems = None /\ ~args.synthesize_item_placeholder) =>
                  items = List(<<>>)
            /\ lineItems # None =>
                  /\ items = map_v2_to_v1(response, ~args.synthesize_item_placeholder).v["items"]
                  /\ Len(items.v) = Len(lineItems.v)
                  /\ \A i \in 1..Len(items.v) :
                        items.v[i] = MkDict([productName |-> Get(lineItems.v[i], "name"),
                                             qty |-> Get(lineItems.v[i], "quantity")])

\* C27 witness: an order without lineItems was mapped with the flag set and
\* got the placeholder item.
C27_Witness ==
    /\ op = "map_v2_to_v1" /\ args.synthesize_item_placeholder
    /\ ~HasKey(response, "lineItems")
    /\ Len(result.v["items"].v) = 1
    /\ result.v["items"].v[1].v["productName"] = Str("<items omitted>")

\* C29: _v2_to_v1(order) and map_v2_to_legacy({"body": order}) agree on
\* orderId, totalPrice and items for every order, and on status when state is
\* present and not None; when state is absent or None the one gives
\* "UNKNOWN" and the other None.
C29_GatewayAgreesWithCore ==
    LET core == map_v2_to_legacy(Envelope(response), NoArgs.include_items_requested,
                                 NoArgs.fallback_state)
        gateway == _v2_to_v1(response)
        stateGiven == HasKey(response, "state") /\ response.v["state"] # None
        Agree(a, b) ==
            /\ a.t = "dict" /\ b.t = "dict"
            /\ \A k \in {"orderId", "totalPrice", "items"} :
                  HasKey(a, k) /\ HasKey(b, k) /\ a.v[k] = b.v[k]
            /\ stateGiven => a.v["status"] = b.v["status"]
            /\ ~stateGiven => a.v["status"] = Str("UNKNOWN") /\ b.v["status"] = None
    IN  /\ op = "_v2_to_v1" => Agree(result, core)
        /\ op = "map_v2_to_legacy" => Agree(gateway, result)

\* C29 witness: an order without state and with two line items went through
\* _v2_to_v1: its status is "UNKNOWN" where the core mapper gives None, and
\* the items of both are the same two mapped items.
C29_Witness ==
    /\ op = "_v2_to_v1" /\ ~HasKey(response, "state")
    /\ HasKey(response, "lineItems") /\ Truthy(response.v["lineItems"])
    /\ Len(response.v["lineItems"].v) = 2
    /\ result.v["status"] = Str("UNKNOWN")
    /\ map_v2_to_legacy(Envelope(response), FALSE, DefaultFallbackState).v["status"] = None
    /\ Len(result.v["items"].v) = 2
    /\ result.v["items"] =
          map_v2_to_legacy(Envelope(response), FALSE, DefaultFallbackState).v["items"]

----------------------------------------------------------------------------
(* RegressionTestSuite of regression_tests.py: the counters and the recorded *)
(* results, the test methods calling assert_test, and the two runners.       *)

\* the number of assert_test calls on one suite
MaxTests == 4

\* the severities the test methods pass to assert_test
Severities == {"CRITICAL", "HIGH", "MEDIUM"}

\* RegressionTestSuite.__init__
NewSuite ==
    [results |-> <<>>, total_tests |-> 0, passed_tests |-> 0,
     failed_tests |-> 0, critical_failures |-> 0]

\* faulty variant: every failed test counts as a critical failure
assert_test_AllCritical(self, condition, severity) ==
    [results |-> Append(self.results,
                        [result |-> IF condition THEN "PASS" ELSE "FAIL",
                         severity |-> severity]),
     total_tests |-> self.total_tests + 1,
     passed_tests |-> IF condition THEN self.passed_tests + 1 ELSE self.passed_tests,
     failed_tests |-> IF condition THEN self.failed_tests ELSE self.failed_tests + 1,
     critical_failures |->
         IF ~condition THEN self.critical_failures + 1 ELSE self.critical_failures]

\* RegressionTestSuite.assert_test: the suite after the call (of the recorded
\* tuple, test_id and message are left out: nothing reads them)
assert_test(self, condition, severity) ==
    [results |-> Append(self.results,
                        [result |-> IF condition THEN "PASS" ELSE "FAIL",
                         severity |-> severity]),
     total_tests |-> self.total_tests + 1,
     passed_tests |-> IF condition THEN self.passed_tests + 1 ELSE self.passed_tests,
     failed_tests |-> IF condition THEN self.failed_tests ELSE self.failed_tests + 1,
     critical_failures |->
         IF ~condition /\ severity = "CRITICAL"
         THEN self.critical_failures + 1 ELSE self.critical_failures]

\* faulty variant: run_all_tests succeeds only without any failure
run_all_tests_returns_NoFailure(self) == self.failed_tests = 0

\* RegressionTestSuite.run_all_tests, line 223: the value returned
run_all_tests_returns(self) == self.critical_failures = 0

\* RegressionTestSuite.run_single_test, line 232: the value returned after
\* the test method has run
run_single_test_returns(self) == self.failed_tests = 0

SuiteInit ==
    /\ suite = NewSuite
    /\ op = "none"
    /\ result = NoResult
    /\ response = None
    /\ args = NoArgs
    /\ shared = {}
    /\ calls = NoCalls
    /\ legacy_state_enum = LEGACY_STATE_ENUM
    /\ request = NoRequest

\* the variables the suite leaves alone
suite_unused == <<response, args, shared, calls, legacy_state_enum, request>>

\* a test method of run_all_tests runs and records its outcome with assert_test
TestMethod ==
    \E condition \in BOOLEAN, severity \in Severities :
        /\ suite.total_tests < MaxTests
        /\ suite' = assert_test(suite, condition, severity)
        /\ op' = "assert_test"
        /\ result' = NoResult
        /\ UNCHANGED suite_unused

\* run_all_tests returns after its test methods have run
RunAllTestsReturn ==
    /\ suite' = suite
    /\ op' = "run_all_tests"
    /\ result' = run_all_tests_returns(suite)
    /\ UNCHANGED suite_unused

\* run_single_test with a test id that names a method of the suite: the
\* method runs, and the value returned is that of line 232
RunSingleTestFound ==
    \E condition \in BOOLEAN, severity \in Severities :
        /\ suite.total_tests < MaxTests
        /\ suite' = assert_test(suite, condition, severity)
        /\ op' = "run_single_test"
        /\ result' = run_single_test_returns(suite')
        /\ UNCHANGED suite_unused

\* run_single_test with a test id that names no method of the suite
RunSingleTestNotFound ==
    /\ suite' = suite
    /\ op' = "run_single_test"
    /\ result' = FALSE
    /\ UNCHANGED suite_unused

SuiteNext ==
    TestMethod \/ RunAllTestsReturn \/ RunSingleTestFound \/ RunSingleTestNotFound

SuiteSpec == SuiteInit /\ [][SuiteNext]_vars

\* the number of recorded results that failed with severity CRITICAL
CriticalFailed ==
    Cardinality({i \in 1..Len(suite.results) :
                    /\ suite.results[i].result = "FAIL"
                    /\ suite.results[i].severity = "CRITICAL"})

\* C30: after any sequence of assert_test calls, total_tests equals
\* passed_tests + failed_tests and the number of recorded results,
\* critical_failures is at most failed_tests and counts exactly the failed
\* calls of severity CRITICAL; run_all_tests returns true exactly when
\* critical_failures is 0, also when other tests have failed, and
\* run_single_test returns true only when failed_tests is 0.
C30_SuiteCounters ==
    /\ suite.total_tests = suite.passed_tests + suite.failed_tests
    /\ suite.total_tests = Len(suite.results)
    /\ suite.critical_failures <= suite.failed_tests
    /\ suite.critical_failures = CriticalFailed
    /\ suite.failed_tests =
          Cardinality({i \in 1..Len(suite.results) : suite.results[i].result = "FAIL"})
    /\ op = "run_all_tests" => (result <=> suite.critical_failures = 0)
    /\ op = "run_single_test" => (result => suite.failed_tests = 0)

\* C30 witness: run_all_tests has returned true although a test of severity
\* HIGH failed, after a critical test passed.
C30_Witness ==
    /\ op = "run_all_tests" /\ result = TRUE
    /\ suite.failed_tests > 0 /\ suite.passed_tests > 0
    /\ suite.critical_failures = 0
    /\ \E i \in 1..Len(suite.results) :
          suite.results[i].result = "FAIL" /\ suite.results[i].severity = "HIGH"
    /\ \E i \in 1..Len(suite.results) :
          suite.results[i].result = "PASS" /\ suite.results[i].severity = "CRITICAL"

====
